---- MODULE Spec2Model ----
(***************************************************************************)
(* Model of bonsai's Mermaid flowchart renderer                            *)
(* (src/bonsai/src/visualizer/mermaid.rs).                                 *)
(*                                                                         *)
(* Text is a sequence of one-character strings.  Three specifications:     *)
(*   SpecExtract : Configs::extract over a list of Config values           *)
(*   SpecEscape  : Escaper::write_str over a text, into a String buffer    *)
(*   Spec        : Mermaid::graph_fmt, one step per write!/writeln!        *)
(*                 statement and per escaped character, against a sink     *)
(*                 that may report a failure on any write.                 *)
(***************************************************************************)
EXTENDS Integers, Sequences, FiniteSets, TLC

VARIABLES
    configs,      \* extract: the &[Config] argument
    conf,         \* extract: the Configs record being built
    cpos,         \* extract: position of the for loop in configs
    text,         \* Escaper::write_str: the argument s
    tpos,         \* Escaper::write_str: position of the for loop in s
    buff,         \* Escaper::write_str: the String the Escaper wraps
    self,         \* graph_fmt: the Mermaid value (graph, injectors, config)
    alternate,    \* graph_fmt: Formatter::alternate(), the '#' flag
    pc,           \* graph_fmt: the statement about to run
    ni,           \* graph_fmt: position of the node loop
    ei,           \* graph_fmt: position of the edge loop
    ci,           \* graph_fmt: position of the Escaper in the label
    sink,         \* the text the sink has received
    sink_failed,  \* whether the sink has reported a write failure
    result        \* graph_fmt: "none" while running, then "Ok" or "Err"

extract_vars == <<configs, conf, cpos>>
escape_vars == <<text, tpos, buff>>
fmt_vars == <<self, alternate, pc, ni, ei, ci, sink, sink_failed, result>>
vars == <<extract_vars, escape_vars, fmt_vars>>

----------------------------------------------------------------------------
(* Bounds *)

MaxConfigLen == 3
MaxTextLen == 4
MaxNodes == 2
MaxEdges == 2

----------------------------------------------------------------------------
(* Text helpers *)

QUOTE == "\""
BACKSLASH == "\\"
NEWLINE == "\n"

RECURSIVE Flatten(_)
Flatten(pieces) ==
    IF pieces = <<>> THEN <<>> ELSE Head(pieces) \o Flatten(Tail(pieces))

IsPrefix(p, t) == Len(p) <= Len(t) /\ SubSeq(t, 1, Len(p)) = p

IsSuffix(p, t) == Len(p) <= Len(t) /\ SubSeq(t, Len(t) - Len(p) + 1, Len(t)) = p

Range(q) == {q[i] : i \in 1..Len(q)}

RECURSIVE SeqsUpTo(_, _)
SeqsUpTo(S, n) ==
    IF n = 0 THEN {<<>>}
    ELSE LET shorter == SeqsUpTo(S, n - 1)
         IN shorter \cup {Append(q, x) : q \in shorter, x \in S}

\* The lines of a text: the maximal runs between line terminators; a text that
\* ends in a terminator has no empty last line.
RECURSIVE SplitLines(_, _)
SplitLines(t, cur) ==
    IF t = <<>> THEN (IF cur = <<>> THEN <<>> ELSE <<cur>>)
    ELSE IF Head(t) = NEWLINE THEN <<cur>> \o SplitLines(Tail(t), <<>>)
    ELSE SplitLines(Tail(t), Append(cur, Head(t)))

Lines(t) == SplitLines(t, <<>>)

----------------------------------------------------------------------------
(* Configuration: enum Config and the generated struct Configs *)

Flags == {"NodeIndexLabel", "EdgeIndexLabel", "EdgeNoLabel", "NodeNoLabel"}

Config == Flags \cup {"_Incomplete"}

ConfigsDefault == [f \in Flags |-> FALSE]

\* A slip in the match arm: the flag is flipped instead of set.
extract_arm_toggle(cf, c) ==
    IF c = "_Incomplete" THEN cf ELSE [cf EXCEPT ![c] = ~cf[c]]

\* One iteration of the match in Configs::extract.
extract_arm(cf, c) ==
    IF c = "_Incomplete" THEN cf ELSE [cf EXCEPT ![c] = TRUE]

RECURSIVE extract_from(_, _)
extract_from(cf, cs) ==
    IF cs = <<>> THEN cf ELSE extract_from(extract_arm(cf, Head(cs)), Tail(cs))

extract(cs) == extract_from(ConfigsDefault, cs)

----------------------------------------------------------------------------
(* Escaper *)

Chars == {"a", QUOTE, BACKSLASH, NEWLINE}

\* A slip in the match: the newline is written as backslash-n, not backslash-l.
write_char_backslash_n(c) ==
    IF c = QUOTE \/ c = BACKSLASH THEN << <<BACKSLASH>>, <<c>> >>
    ELSE IF c = NEWLINE THEN << <<BACKSLASH, "n">> >>
    ELSE << <<c>> >>

\* A slip in the match: only the quote is escaped, the backslash is not.
write_char_quote_only(c) ==
    IF c = QUOTE THEN << <<BACKSLASH>>, <<c>> >>
    ELSE IF c = NEWLINE THEN << <<BACKSLASH, "l">> >>
    ELSE << <<c>> >>

\* A slip in the match: the newline passes through like any other character.
write_char_raw_newline(c) ==
    IF c = QUOTE \/ c = BACKSLASH THEN << <<BACKSLASH>>, <<c>> >>
    ELSE << <<c>> >>

\* The writes Escaper::write_char makes to the wrapped sink for one character,
\* in order; each is one call that may fail.
write_char(c) ==
    IF c = QUOTE \/ c = BACKSLASH THEN << <<BACKSLASH>>, <<c>> >>
    ELSE IF c = NEWLINE THEN << <<BACKSLASH, "l">> >>
    ELSE << <<c>> >>

----------------------------------------------------------------------------
(* Configs::extract, one loop iteration per step *)

ExtractIdle == configs = <<>> /\ conf = ConfigsDefault /\ cpos = 1

EscapeIdle == text = <<>> /\ tpos = 1 /\ buff = <<>>

FmtIdle ==
    /\ self = [graph |-> [nodes |-> <<>>, edges |-> <<>>, directed |-> TRUE],
               get_edge_attributes |-> "default",
               get_node_attributes |-> "default",
               config |-> ConfigsDefault]
    /\ alternate = FALSE
    /\ pc = "idle" /\ ni = 1 /\ ei = 1 /\ ci = 1
    /\ sink = <<>> /\ sink_failed = FALSE /\ result = "none"

InitExtract ==
    /\ configs \in SeqsUpTo(Config, MaxConfigLen)
    /\ conf = ConfigsDefault
    /\ cpos = 1
    /\ EscapeIdle
    /\ FmtIdle

\* for c in configs { match *c { Config::$variant => conf.$variant = true, .. } }
ExtractFlag ==
    /\ cpos <= Len(configs)
    /\ configs[cpos] \in Flags
    /\ conf' = extract_arm(conf, configs[cpos])
    /\ cpos' = cpos + 1
    /\ UNCHANGED <<configs, escape_vars, fmt_vars>>

\* Config::_Incomplete(()) => {}
ExtractIncomplete ==
    /\ cpos <= Len(configs)
    /\ configs[cpos] = "_Incomplete"
    /\ conf' = extract_arm(conf, configs[cpos])
    /\ cpos' = cpos + 1
    /\ UNCHANGED <<configs, escape_vars, fmt_vars>>

NextExtract == ExtractFlag \/ ExtractIncomplete

SpecExtract == InitExtract /\ [][NextExtract]_vars

ExtractDone == cpos > Len(configs)

----------------------------------------------------------------------------
(* Escaper::write_str into a String, one character per step *)

InitEscape ==
    /\ text \in SeqsUpTo(Chars, MaxTextLen)
    /\ tpos = 1
    /\ buff = <<>>
    /\ ExtractIdle
    /\ FmtIdle

\* for c in s.chars() { self.write_char(c)?; }   (String::write_* never fails)
EscaperWriteChar ==
    /\ tpos <= Len(text)
    /\ buff' = buff \o Flatten(write_char(text[tpos]))
    /\ tpos' = tpos + 1
    /\ UNCHANGED <<text, extract_vars, fmt_vars>>

NextEscape == EscaperWriteChar

SpecEscape == InitEscape /\ [][NextEscape]_vars

EscapeDone == tpos > Len(text)

----------------------------------------------------------------------------
(* Mermaid::graph_fmt: the text each statement writes *)

INDENT == <<" ", " ", " ", " ">>

\* A slip in the table: the two arrows in the other order.
EDGE_swapped == << <<"-", "-", ">">>, <<"-", "-", "-">> >>

\* EDGE[g.is_directed() as usize], 1-based
EDGE == << <<"-", "-", "-">>, <<"-", "-", ">">> >>

HEADER == <<"f", "l", "o", "w", "c", "h", "a", "r", "t", " ", "T", "D">>

Digits == <<"0", "1", "2", "3", "4", "5", "6", "7", "8", "9">>

\* "{}" of a usize
RECURSIVE Dec(_)
Dec(n) ==
    IF n < 10 THEN <<Digits[n + 1]>>
    ELSE Dec(n \div 10) \o <<Digits[(n % 10) + 1]>>

\* g.to_index(node.id()) of the i-th node reference
to_index(me, i) == me.graph.nodes[i].id

\* The caller's injectors.  "default" is the closure |_, _| String::new() of
\* with_config; "custom" stands for a caller's closure: a class suffix for a
\* node, the edge's payload after a colon for an edge.
HIGHLIGHT == <<":", ":", ":", "h">>

node_attributes(me, i) ==
    IF me.get_node_attributes = "default" THEN <<>> ELSE HIGHLIGHT

edge_attributes(me, j) ==
    IF me.get_edge_attributes = "default" THEN <<>>
    ELSE <<":">> \o me.graph.edges[j].weight

\* What Escaped::fmt sends through the Escaper for the i-th node: the payload
\* as node_fmt writes it, and with the '#' flag the "\n" that writeln! adds.
escaped_input(me, alt, i) ==
    me.graph.nodes[i].weight \o (IF alt THEN <<NEWLINE>> ELSE <<>>)

\* writeln!(f, "flowchart TD")
header_pieces == << HEADER \o <<NEWLINE>> >>

\* write!(f, "{}{}[", INDENT, g.to_index(node.id()))
node_open_pieces(me, i) == << INDENT, Dec(to_index(me, i)), <<"[">> >>

\* write!(f, "\"")
quote_pieces == << <<QUOTE>> >>

\* A slip: the label is the count of the nodes visited so far, not the index.
index_label_pieces_counter(me, i) == << Dec(i - 1) >>

\* write!(f, "{}", g.to_index(node.id()))
index_label_pieces(me, i) == << Dec(to_index(me, i)) >>

\* writeln!(f, "{}]", (self.get_node_attributes)(g, node))
node_close_pieces(me, i) == << node_attributes(me, i), <<"]", NEWLINE>> >>

\* write!(f, "{}{} {} {}", INDENT, source, EDGE[directed], target)
edge_head_pieces(me, j) ==
    LET e == me.graph.edges[j]
    IN << INDENT, Dec(e.source), <<" ">>,
          EDGE[IF me.graph.directed THEN 2 ELSE 1], <<" ">>, Dec(e.target) >>

\* A slip: EdgeNoLabel is honoured by dropping the injected text.
edge_tail_pieces_nolabel(me, j) ==
    << IF me.config.EdgeNoLabel THEN <<>> ELSE edge_attributes(me, j), <<NEWLINE>> >>

\* writeln!(f, "{}", (self.get_edge_attributes)(g, edge))
edge_tail_pieces(me, j) == << edge_attributes(me, j), <<NEWLINE>> >>

\* Escaper::write_str with a sink that never fails: everything it writes.
RECURSIVE write_str(_)
write_str(t) ==
    IF t = <<>> THEN <<>> ELSE Flatten(write_char(Head(t))) \o write_str(Tail(t))

\* The body of the node loop when no write fails.
node_line(me, alt, i) ==
    Flatten(node_open_pieces(me, i))
    \o (IF me.config.NodeNoLabel THEN <<>>
        ELSE Flatten(quote_pieces)
             \o (IF me.config.NodeIndexLabel
                 THEN Flatten(index_label_pieces(me, i))
                 ELSE write_str(escaped_input(me, alt, i)))
             \o Flatten(quote_pieces))
    \o Flatten(node_close_pieces(me, i))

\* The body of the edge loop when no write fails.
edge_line(me, j) ==
    Flatten(edge_head_pieces(me, j)) \o Flatten(edge_tail_pieces(me, j))

\* Everything graph_fmt writes when no write fails.
graph_fmt_output(me, alt) ==
    Flatten(header_pieces)
    \o Flatten([i \in 1..Len(me.graph.nodes) |-> node_line(me, alt, i)])
    \o Flatten([j \in 1..Len(me.graph.edges) |-> edge_line(me, j)])

----------------------------------------------------------------------------
(* The graphs, configurations and injectors a render is checked on *)

Weights == << <<"A">>, <<"B">>, <<QUOTE, "a", NEWLINE>> >>

\* Two ways to number and label the nodes: indices from 0 with payloads A, B,
\* ..., and indices from 9 (so that an index has two digits) with the payloads
\* rotated so that the first one needs escaping.
Schemes == {[base |-> 0, rot |-> 0], [base |-> 9, rot |-> 2]}

NodesOf(n, sch) ==
    [i \in 1..n |-> [id |-> sch.base + i - 1,
                     weight |-> Weights[((sch.rot + i - 1) % Len(Weights)) + 1]]]

\* Edges run between the first and the last node, either way.
EdgeEnds(n) == IF n = 0 THEN {} ELSE {<<1, n>>, <<n, 1>>}

EdgesOf(nodes, ends) ==
    [j \in 1..Len(ends) |-> [source |-> nodes[ends[j][1]].id,
                             target |-> nodes[ends[j][2]].id,
                             weight |-> <<"w">>]]

GraphsOf(n) ==
    {[nodes |-> NodesOf(n, sch), edges |-> EdgesOf(NodesOf(n, sch), ends), directed |-> d] :
        sch \in Schemes, ends \in SeqsUpTo(EdgeEnds(n), MaxEdges), d \in BOOLEAN}

Graphs == UNION {GraphsOf(n) : n \in 0..MaxNodes}

Injectors == {"default", "custom"}

----------------------------------------------------------------------------
(* Mermaid::graph_fmt against a sink that may fail *)

\* Mermaid::with_attr_getters, then the formatter enters graph_fmt.
Init ==
    /\ \E g \in Graphs, cs \in SeqsUpTo(Config, MaxConfigLen), ea \in Injectors, na \in Injectors :
          self = [graph |-> g, get_edge_attributes |-> ea, get_node_attributes |-> na,
                  config |-> extract(cs)]
    /\ alternate \in BOOLEAN
    /\ pc = "header" /\ ni = 1 /\ ei = 1 /\ ci = 1
    /\ sink = <<>> /\ sink_failed = FALSE /\ result = "none"
    /\ ExtractIdle
    /\ EscapeIdle

EdgeLoop(j) == IF j <= Len(self.graph.edges) THEN "edge_head" ELSE "return"

NodeLoop(i) == IF i <= Len(self.graph.nodes) THEN "node_open" ELSE EdgeLoop(1)

\* A slip: the statement's result is dropped instead of propagated with `?`,
\* so the statement after it runs although the sink has failed.
Write_ignore_error(pieces, next, i, j, c) ==
    /\ \E k \in 0..Len(pieces) :
          /\ sink' = sink \o Flatten(SubSeq(pieces, 1, k))
          /\ pc' = next /\ ni' = i /\ ei' = j /\ ci' = c
          /\ sink_failed' = (sink_failed \/ k < Len(pieces))
          /\ UNCHANGED result
    /\ UNCHANGED <<self, alternate, extract_vars, escape_vars>>

\* One formatting statement followed by `?`: its pieces go to the sink one
\* write after the other; the first write the sink fails ends graph_fmt with
\* that error, and when none fails the statement after it runs next.
Write(pieces, next, i, j, c) ==
    /\ \E k \in 0..Len(pieces) :
          /\ sink' = sink \o Flatten(SubSeq(pieces, 1, k))
          /\ IF k = Len(pieces)
             THEN /\ pc' = next /\ ni' = i /\ ei' = j /\ ci' = c
                  /\ UNCHANGED <<sink_failed, result>>
             ELSE /\ sink_failed' = TRUE
                  /\ result' = "Err"
                  /\ pc' = "done"
                  /\ UNCHANGED <<ni, ei, ci>>
    /\ UNCHANGED <<self, alternate, extract_vars, escape_vars>>

WriteHeader ==
    /\ pc = "header"
    /\ Write(header_pieces, NodeLoop(1), ni, ei, ci)

NodeOpen ==
    /\ pc = "node_open"
    /\ Write(node_open_pieces(self, ni),
             IF self.config.NodeNoLabel THEN "node_close" ELSE "quote_open",
             ni, ei, ci)

QuoteOpen ==
    /\ pc = "quote_open"
    /\ Write(quote_pieces,
             IF self.config.NodeIndexLabel THEN "index_label"
             ELSE IF escaped_input(self, alternate, ni) = <<>> THEN "quote_close"
             ELSE "escaped",
             ni, ei, 1)

IndexLabel ==
    /\ pc = "index_label"
    /\ Write(index_label_pieces(self, ni), "quote_close", ni, ei, ci)

\* Escaped(FnFmt(node.weight(), &node_fmt)).fmt(f): one Escaper::write_char
EscapedWriteChar ==
    /\ pc = "escaped"
    /\ LET t == escaped_input(self, alternate, ni)
       IN Write(write_char(t[ci]),
                IF ci = Len(t) THEN "quote_close" ELSE "escaped",
                ni, ei, ci + 1)

QuoteClose ==
    /\ pc = "quote_close"
    /\ Write(quote_pieces, "node_close", ni, ei, ci)

NodeClose ==
    /\ pc = "node_close"
    /\ Write(node_close_pieces(self, ni), NodeLoop(ni + 1), ni + 1, ei, ci)

EdgeHead ==
    /\ pc = "edge_head"
    /\ Write(edge_head_pieces(self, ei), "edge_tail", ni, ei, ci)

EdgeTail ==
    /\ pc = "edge_tail"
    /\ Write(edge_tail_pieces(self, ei), EdgeLoop(ei + 1), ni, ei + 1, ci)

\* Ok(())
ReturnOk ==
    /\ pc = "return"
    /\ pc' = "done"
    /\ result' = "Ok"
    /\ UNCHANGED <<self, alternate, ni, ei, ci, sink, sink_failed, extract_vars, escape_vars>>

Next ==
    \/ WriteHeader
    \/ NodeOpen
    \/ QuoteOpen
    \/ IndexLabel
    \/ EscapedWriteChar
    \/ QuoteClose
    \/ NodeClose
    \/ EdgeHead
    \/ EdgeTail
    \/ ReturnOk

Spec == Init /\ [][Next]_vars

----------------------------------------------------------------------------
(* Properties of Configs::extract (SpecExtract) *)

\* C8: the resolved configuration depends only on the set of recognised flags
\* in the list: a flag is true iff it occurs in the list, so the empty list
\* resolves to all false, and every list with the same recognised flags (a
\* reordering, one with repeats, one with placeholders added or removed)
\* resolves to the same record; the loop never stops before the end of a list.
C8_ExtractDependsOnFlagSet ==
    /\ ExtractDone =>
          /\ \A f \in Flags : conf[f] = (f \in Range(configs))
          /\ conf = extract(configs)
          /\ \A cs \in SeqsUpTo(Config, MaxConfigLen) :
                (Range(cs) \cap Flags = Range(configs) \cap Flags) => extract(cs) = conf
    /\ ~ExtractDone => ENABLED NextExtract

\* A list with a repeated flag and a placeholder has been resolved.
C8_Witness ==
    /\ ExtractDone
    /\ configs = <<"NodeNoLabel", "_Incomplete", "NodeNoLabel">>

----------------------------------------------------------------------------
(* Properties of the Escaper (SpecEscape) *)

\* The escape of one character, as the specification words it.
EscapeOf(c) ==
    CASE c = QUOTE -> <<BACKSLASH, QUOTE>>
      [] c = BACKSLASH -> <<BACKSLASH, BACKSLASH>>
      [] c = NEWLINE -> <<BACKSLASH, "l">>
      [] OTHER -> <<c>>

RECURSIVE EscapeOfText(_)
EscapeOfText(t) ==
    IF t = <<>> THEN <<>> ELSE EscapeOf(Head(t)) \o EscapeOfText(Tail(t))

\* C3: what the Escaper has written after the first k characters is the
\* concatenation of their escapes, in input order; a text with no quote,
\* backslash or newline comes out unchanged.
C3_EscaperOutput ==
    /\ buff = EscapeOfText(SubSeq(text, 1, tpos - 1))
    /\ (EscapeDone /\ Range(text) \cap {QUOTE, BACKSLASH, NEWLINE} = {}) => buff = text

\* The text of test_escape's shape (quote, backslash, newline and a plain
\* character) has been escaped.
C3_Witness ==
    /\ EscapeDone
    /\ text = <<QUOTE, "a", BACKSLASH, NEWLINE>>
    /\ buff = <<BACKSLASH, QUOTE, "a", BACKSLASH, BACKSLASH, BACKSLASH, "l">>

\* Left-to-right scan in which a backslash and the character after it form one
\* escape pair: no quote and no newline outside a pair, no lone last backslash.
RECURSIVE SafeInQuotes(_)
SafeInQuotes(t) ==
    IF t = <<>> THEN TRUE
    ELSE IF Head(t) = BACKSLASH THEN Len(t) >= 2 /\ SafeInQuotes(Tail(Tail(t)))
    ELSE Head(t) \notin {QUOTE, NEWLINE} /\ SafeInQuotes(Tail(t))

\* The positions, from position at on, of the quotes outside an escape pair.
RECURSIVE UnescapedQuotes(_, _)
UnescapedQuotes(t, at) ==
    IF at > Len(t) THEN {}
    ELSE IF t[at] = BACKSLASH THEN UnescapedQuotes(t, at + 2)
    ELSE (IF t[at] = QUOTE THEN {at} ELSE {}) \cup UnescapedQuotes(t, at + 1)

\* A renderer of the graph with one node, index 0, whose payload is t.
OneNode(t) ==
    [graph |-> [nodes |-> << [id |-> 0, weight |-> t] >>, edges |-> <<>>, directed |-> TRUE],
     get_edge_attributes |-> "default",
     get_node_attributes |-> "default",
     config |-> ConfigsDefault]

\* C4: the Escaper's output is safe inside a quoted label at every point of
\* the text, and on the node line that carries the payload the only quotes
\* outside an escape pair are the two delimiters the renderer writes: the one
\* after `[` and the one before `]`.
C4_EscapedLabelSafe ==
    /\ SafeInQuotes(buff)
    /\ EscapeDone =>
          \A alt \in BOOLEAN :
             LET line == node_line(OneNode(text), alt, 1)
             IN UnescapedQuotes(line, 1) = {Len(INDENT) + 3, Len(line) - 2}

\* A payload that ends in a backslash after a quote and a newline.
C4_Witness ==
    /\ EscapeDone
    /\ text = <<QUOTE, NEWLINE, BACKSLASH>>

----------------------------------------------------------------------------
(* Properties of Mermaid::graph_fmt (Spec) *)

NumNodes == Len(self.graph.nodes)

NumEdges == Len(self.graph.edges)

\* The i-th node line and the j-th edge line of what the sink has received.
NodeLineAt(i) ==
    LET ls == Lines(sink) IN IF 1 + i <= Len(ls) THEN ls[1 + i] ELSE <<>>

EdgeLineAt(j) ==
    LET ls == Lines(sink)
    IN IF 1 + NumNodes + j <= Len(ls) THEN ls[1 + NumNodes + j] ELSE <<>>

\* The edge line the specification describes: indent, source index, arrow by
\* directedness, target index, then the edge injector's text.
SpecEdgeLine(j) ==
    LET e == self.graph.edges[j]
    IN INDENT \o Dec(e.source) \o <<" ">>
       \o (IF self.graph.directed THEN <<"-", "-", ">">> ELSE <<"-", "-", "-">>)
       \o <<" ">> \o Dec(e.target) \o edge_attributes(self, j)

DefaultRenderer ==
    /\ self.config = ConfigsDefault
    /\ self.get_node_attributes = "default"
    /\ self.get_edge_attributes = "default"

\* Nodes "A" (index 0) and "B" (index 1) and the one edge A -> B.
GraphAB ==
    /\ self.graph.nodes = << [id |-> 0, weight |-> <<"A">>], [id |-> 1, weight |-> <<"B">>] >>
    /\ self.graph.edges = << [source |-> 0, target |-> 1, weight |-> <<"w">>] >>

RenderAB ==
    HEADER \o <<NEWLINE>>
    \o INDENT \o <<"0", "[", QUOTE, "A", QUOTE, "]", NEWLINE>>
    \o INDENT \o <<"1", "[", QUOTE, "B", QUOTE, "]", NEWLINE>>
    \o INDENT \o <<"0", " ", "-", "-">>
    \o (IF self.graph.directed THEN <<">">> ELSE <<"-">>) \o <<" ", "1", NEWLINE>>

\* C1 as stated: with a node injector that returns a fixed non-empty text S
\* and NodeNoLabel unset, every node line is <index>["<label>"]S, S last on
\* the line and unescaped.
C1_InjectedAfterBracket ==
    (result = "Ok" /\ self.get_node_attributes = "custom" /\ ~self.config.NodeNoLabel) =>
        \A i \in 1..NumNodes :
            /\ IsPrefix(INDENT \o Dec(to_index(self, i)) \o <<"[", QUOTE>>, NodeLineAt(i))
            /\ IsSuffix(<<QUOTE, "]">> \o node_attributes(self, i), NodeLineAt(i))

\* C2 as stated: every edge line is the specified one, and the graph A -> B
\* under the default configuration and injectors renders exactly as the four
\* lines of the specification, whatever the formatter's flags.
C2_EdgeLinesAndExample ==
    result = "Ok" =>
        /\ \A j \in 1..NumEdges : EdgeLineAt(j) = SpecEdgeLine(j)
        /\ (GraphAB /\ DefaultRenderer) => sink = RenderAB

\* C2 amended: every edge line is the specified one, and the graph A -> B
\* under the default configuration and injectors renders exactly as the four
\* lines of the specification when the formatter's alternate flag is not set.
C2_EdgeLinesAndPlainExample ==
    result = "Ok" =>
        /\ \A j \in 1..NumEdges : EdgeLineAt(j) = SpecEdgeLine(j)
        /\ (GraphAB /\ DefaultRenderer /\ ~alternate) => sink = RenderAB

\* The undirected graph A - B has been rendered without the alternate flag.
C2_Witness ==
    /\ result = "Ok"
    /\ GraphAB /\ DefaultRenderer /\ ~alternate
    /\ ~self.graph.directed
    /\ EdgeLineAt(1) = INDENT \o <<"0", " ", "-", "-", "-", " ", "1">>

\* C5: a sink failure ends the render at once with that failure, and only a
\* sink failure does; what the sink holds is always a prefix of the
\* failure-free output and is the whole of it on success; no step takes text
\* back from the sink or writes after a failure; a render that has not
\* returned can always take a step.
C5_StateInv ==
    /\ sink_failed => (pc = "done" /\ result = "Err")
    /\ result = "Err" => sink_failed
    /\ IsPrefix(sink, graph_fmt_output(self, alternate))
    /\ (pc = "done" /\ ~sink_failed) =>
          (result = "Ok" /\ sink = graph_fmt_output(self, alternate))
    /\ pc # "done" => ENABLED Next

\* C5 (whole claim): the state invariant above holds throughout, and every
\* step only appends to the sink and appends nothing once the sink has failed.
C5_FailurePropagation ==
    /\ []C5_StateInv
    /\ [][IsPrefix(sink, sink') /\ (sink_failed => sink' = sink)]_vars

\* The sink failed between the backslash and the quote of an escaped payload.
C5_Witness ==
    /\ result = "Err"
    /\ sink_failed
    /\ Len(sink) > 0
    /\ sink[Len(sink)] = BACKSLASH

\* C6 as stated: with NodeNoLabel set every node line is <index>[] followed by
\* the node injector's text, whatever the other flags and the payload.
C6_NoLabelLine ==
    (result = "Ok" /\ self.config.NodeNoLabel) =>
        \A i \in 1..NumNodes :
            NodeLineAt(i) = INDENT \o Dec(to_index(self, i)) \o <<"[", "]">>
                            \o node_attributes(self, i)

\* C7: with NodeIndexLabel set and NodeNoLabel unset, the payload never goes
\* through the Escaper, and every node line is the index, the quoted index and
\* then nothing but the closing bracket and the injected text; with the
\* default injector it is exactly <index>["<index>"].
C7_IndexLabel ==
    (self.config.NodeIndexLabel /\ ~self.config.NodeNoLabel) =>
        /\ pc # "escaped"
        /\ result = "Ok" =>
              \A i \in 1..NumNodes :
                 LET idx == Dec(to_index(self, i))
                     head == INDENT \o idx \o <<"[", QUOTE>> \o idx \o <<QUOTE>>
                     inj == node_attributes(self, i)
                 IN /\ NodeLineAt(i) \in {head \o <<"]">> \o inj, head \o inj \o <<"]">>}
                    /\ self.get_node_attributes = "default" =>
                          NodeLineAt(i) = head \o <<"]">>

\* Two nodes with indices 9 and 10, the first with a payload that would need
\* escaping, have been rendered with index labels.
C7_Witness ==
    /\ result = "Ok"
    /\ self.config.NodeIndexLabel /\ ~self.config.NodeNoLabel
    /\ NumNodes = 2
    /\ to_index(self, 2) = 10
    /\ self.graph.nodes[1].weight = <<QUOTE, "a", NEWLINE>>

\* The renderers that differ from me at most in the two edge flags.
EdgeFlagVariants(me) ==
    {[me EXCEPT !.config = [me.config EXCEPT !.EdgeIndexLabel = a, !.EdgeNoLabel = b]] :
        a \in BOOLEAN, b \in BOOLEAN}

NoLineTerminator(t) == NEWLINE \notin Range(t)

\* C10: a successful render whose injectors return no line terminator has
\* written 1 + |nodes| + |edges| lines, each terminated: the header, then the
\* node lines in node order, then the edge lines in edge order; and the edge
\* loop never runs before the node loop has ended.
C10_LineOrder ==
    /\ pc \in {"edge_head", "edge_tail"} => ni = NumNodes + 1
    /\ (/\ result = "Ok"
        /\ \A i \in 1..NumNodes : NoLineTerminator(node_attributes(self, i))
        /\ \A j \in 1..NumEdges : NoLineTerminator(edge_attributes(self, j))) =>
          LET ls == Lines(sink)
          IN /\ Len(ls) = 1 + NumNodes + NumEdges
             /\ sink[Len(sink)] = NEWLINE
             /\ ls[1] = HEADER
             /\ \A i \in 1..NumNodes :
                   IsPrefix(INDENT \o Dec(to_index(self, i)) \o <<"[">>, ls[1 + i])
             /\ \A j \in 1..NumEdges :
                   IsPrefix(INDENT \o Dec(self.graph.edges[j].source) \o <<" ">>,
                            ls[1 + NumNodes + j])

\* Two nodes, one with a newline in its payload, and two edges in opposite
\* directions have been rendered with the alternate flag set.
C10_Witness ==
    /\ result = "Ok"
    /\ alternate
    /\ NumNodes = 2 /\ NumEdges = 2
    /\ self.graph.nodes[1].weight = <<QUOTE, "a", NEWLINE>>
    /\ self.graph.edges[1].source # self.graph.edges[2].source

====
